---- MODULE Spec2Model ----
(***************************************************************************)
(* A model of ObsidianSync.py: the auto-sync cycle (auto_sync.sync_thread), *)
(* the one-time setup wizard with its background threads, and the          *)
(* configuration file handling (load_config / save_config).                *)
(*                                                                         *)
(* The git repository, the vault directory and the editor process are the  *)
(* environment: every run_command call is one step whose outcome is drawn  *)
(* from the outcomes git can produce in the current repository state.      *)
(***************************************************************************)
EXTENDS Integers, Sequences, FiniteSets, TLC

VARIABLES
    \* ---- configuration (config_data dict, config.txt) ----
    config_data,    \* the in-memory dict, lines 17-21
    config_file,    \* config.txt: whether it exists and its text
    saved,          \* config_data as it was when the round trip wrote it
    cfgpc,          \* position of a save_config / load_config round trip
    \* ---- the vault directory and its git repository ----
    isRepo,         \* the vault is a git work tree
    commits,        \* number of local commits (HEAD resolves iff > 0)
    origin,         \* URL of remote 'origin', "none" when not configured
    remoteMain,     \* branch main exists on the remote
    vault,          \* files present in the vault directory
    tracked,        \* files contained in the HEAD commit
    modified,       \* tracked files with uncommitted modifications
    stash,          \* the stash stack, top first; each entry a set of files
    \* ---- one run of auto_sync.sync_thread ----
    pc,             \* position of sync_thread
    events,         \* commands run and log events emitted, in program order
    committed,      \* local variable 'committed', line 501
    stashPushed,    \* whether 'git stash' of this cycle pushed an entry
    editor,         \* the Obsidian process: "absent", "launching", "running"
    cycle,          \* number of program invocations so far
    \* ---- the setup wizard (run_setup_wizard) and its background threads ----
    wpc,            \* position of the main thread in run_setup_wizard / mainloop
    tpc,            \* position of each re_test_ssh._test_thread
    kpc,            \* position of each generate_ssh_key_async thread
    keyPub,         \* ~/.ssh/id_rsa.pub exists
    keyPriv,        \* ~/.ssh/id_rsa exists
    keyOverwritten, \* ssh-keygen has replaced an existing key file
    knownHosts,     \* number of github.com lines in ~/.ssh/known_hosts
    scmds,          \* <<command, outcome>> pairs run since the program started
    slog,           \* log lines and dialogs shown since the program started
    repo0,          \* the repository as it was when the program started
    runs            \* number of times the program was started

rtVars    == <<saved, cfgpc>>
cfgVars   == <<config_data, config_file, rtVars>>
repoVars  == <<isRepo, commits, origin, remoteMain, vault, tracked, modified, stash>>
syncVars  == <<pc, events, committed, stashPushed, editor, cycle>>
keyVars   == <<keyPub, keyPriv, keyOverwritten>>
setupVars == <<wpc, tpc, kpc, keyVars, knownHosts, scmds, slog, repo0, runs>>
vars      == <<cfgVars, repoVars, syncVars, setupVars>>

(***************************************************************************)
(* Bounds                                                                  *)
(***************************************************************************)
MaxCycles == 2

MaxThreads == 2

MaxKeygen == 1

MaxRuns == 2

\* Longest vault path, and longest hand-written config.txt, in tokens
MaxLen == 2

MaxFileLen == 3

Threads == 1..MaxThreads

KeygenThreads == 1..MaxKeygen

Files == {"README.md", "note.md"}

(***************************************************************************)
(* The configuration.  A text is a sequence of tokens: a blank, a line     *)
(* break, an equals sign, or a word, which stands for a run of characters  *)
(* that are none of these.  config_data, a Python dict, is the sequence of *)
(* its <<key, value>> items in insertion order.                            *)
(***************************************************************************)
NL == "\n"

EQ == "="

\* The characters str.strip() removes
Whitespace == {" ", NL}

VAULT_PATH == <<"VAULT_PATH">>

OBSIDIAN_PATH == <<"OBSIDIAN_PATH">>

SETUP_DONE == <<"SETUP_DONE">>

\* lines 17-21
Defaults == <<<<VAULT_PATH, <<>>>>, <<OBSIDIAN_PATH, <<>>>>, <<SETUP_DONE, <<"0">>>>>>

\* dict operations: keys(), d[k], d[k] = v
Keys(d) == {d[i][1] : i \in 1..Len(d)}

Get(d, k) == d[CHOOSE i \in 1..Len(d) : d[i][1] = k][2]

Put(d, k, v) ==
    IF k \in Keys(d)
    THEN [d EXCEPT ![CHOOSE i \in 1..Len(d) : d[i][1] = k] = <<k, v>>]
    ELSE Append(d, <<k, v>>)

RECURSIVE LStrip(_)
LStrip(s) == IF s # <<>> /\ Head(s) \in Whitespace THEN LStrip(Tail(s)) ELSE s

RECURSIVE RStrip(_)
RStrip(s) ==
    IF s # <<>> /\ s[Len(s)] \in Whitespace
    THEN RStrip(SubSeq(s, 1, Len(s) - 1))
    ELSE s

\* str.strip()
Strip(s) == RStrip(LStrip(s))

\* Index of the first (last) c in s, 0 when there is none
FirstIndex(s, c) ==
    IF \E i \in 1..Len(s) : s[i] = c
    THEN CHOOSE i \in 1..Len(s) : s[i] = c /\ \A j \in 1..(i - 1) : s[j] # c
    ELSE 0

LastIndexOf(s, c) ==
    IF \E i \in 1..Len(s) : s[i] = c
    THEN CHOOSE i \in 1..Len(s) : s[i] = c /\ \A j \in (i + 1)..Len(s) : s[j] # c
    ELSE 0

\* 'for line in f', line 40: the lines of the text, each with its line break
RECURSIVE Lines(_)
Lines(t) ==
    IF t = <<>> THEN <<>>
    ELSE LET i == FirstIndex(t, NL) IN
         IF i = 0 THEN <<t>>
         ELSE <<SubSeq(t, 1, i)>> \o Lines(SubSeq(t, i + 1, Len(t)))

SplitKeyVal_AtLastEquals(line) ==
    LET i == LastIndexOf(line, EQ) IN
    <<SubSeq(line, 1, i - 1), SubSeq(line, i + 1, Len(line))>>

\* line.split("=", 1), line 43
SplitKeyVal(line) ==
    LET i == FirstIndex(line, EQ) IN
    <<SubSeq(line, 1, i - 1), SubSeq(line, i + 1, Len(line))>>

\* lines 40-44
RECURSIVE ParseLines(_, _)
ParseLines(mem, ls) ==
    IF ls = <<>> THEN mem
    ELSE LET line == Strip(Head(ls))
             kv   == SplitKeyVal(line)
         IN  ParseLines(IF FirstIndex(line, EQ) # 0
                        THEN Put(mem, Strip(kv[1]), Strip(kv[2]))
                        ELSE mem,
                        Tail(ls))

\* load_config, lines 33-45: the dict afterwards, for the dict mem before
load_config(mem, file) ==
    IF ~file.exists THEN mem ELSE ParseLines(mem, Lines(file.text))

\* lines 52-53
RECURSIVE WriteLines(_)
WriteLines(d) ==
    IF d = <<>> THEN <<>>
    ELSE Head(d)[1] \o <<EQ>> \o Head(d)[2] \o <<NL>> \o WriteLines(Tail(d))

\* save_config, lines 47-53: config.txt afterwards
save_config(mem) == [exists |-> TRUE, text |-> WriteLines(mem)]

NoFile == [exists |-> FALSE, text |-> <<>>]

(***************************************************************************)
(* Events: the commands issued through run_command and the log events      *)
(* emitted through safe_update_log, in one sequence.  For a command p is   *)
(* its return code; for a log event p is the progress value, NoProgress    *)
(* when the call passes progress=None.                                     *)
(***************************************************************************)
NoProgress == -1

\* A command, its outcome o (see the git operators below) and return code.
CmdO(c, o, rc) == [k |-> "cmd", v |-> c, p |-> rc, o |-> o]

Cmd(c, rc) == CmdO(c, IF rc = 0 THEN "ok" ELSE "fail", rc)

Log(m, p) == [k |-> "log", v |-> m, p |-> p, o |-> ""]

\* The outcome of the last run of command c recorded in ev, "" when none.
LastOutcome(ev, c) ==
    LET idx == {i \in 1..Len(ev) : ev[i].k = "cmd" /\ ev[i].v = c} IN
    IF idx = {} THEN ""
    ELSE ev[CHOOSE i \in idx : \A j \in idx : j <= i].o

\* run_command's return value: rc and the texts found in stdout / stderr.
Res(rc, out, err) == [rc |-> rc, out |-> out, err |-> err]


(***************************************************************************)
(* The environment: git.  Each operator gives the outcomes the command can *)
(* have in the current state of the repository; "fail" stands for any      *)
(* other non-zero exit (a lock file, a hook, a missing identity, ...).     *)
(***************************************************************************)
HeadResolves_Never == FALSE

HeadResolves == isRepo /\ commits > 0

\* The repository and the vault with its uncommitted edits, as one value.
Snapshot == <<isRepo, commits, origin, remoteMain, vault, tracked, modified>>

\* Files 'git add .' would stage: untracked files and modified tracked files.
Changes(v, t, m) == (v \ t) \cup m

AddOutcomes == IF isRepo THEN {0, 1} ELSE {1}

\* 'git commit' after 'git add .' returned addRc, with the vault holding v.
CommitOutcomes(addRc, v) ==
    IF ~isRepo THEN {"fail"}
    ELSE IF Changes(v, tracked, modified) = {} THEN {"nothing", "fail"}
    ELSE IF addRc = 0 THEN {"ok", "fail"}
    ELSE {"fail"}

CommitRes(o) ==
    CASE o = "ok"      -> Res(0, {"text"}, {})
      [] o = "nothing" -> Res(1, {"nothing to commit"}, {})
      [] OTHER         -> Res(1, {}, {"text"})

LsRemoteOutcomes ==
    IF isRepo /\ origin # "none"
    THEN {IF remoteMain THEN "found" ELSE "empty", "error"}
    ELSE {"error"}

LsRemoteRes(o) ==
    CASE o = "found" -> Res(0, {"text"}, {})
      [] o = "empty" -> Res(0, {}, {})
      [] OTHER       -> Res(1, {}, {"text"})

\* 'git push': needs a repository with a commit and a configured remote.
PushOutcomes ==
    IF isRepo /\ origin # "none" /\ commits > 0
    THEN {"ok", "network", "fail"}
    ELSE {"fail"}

PushRes(o) ==
    CASE o = "ok"      -> Res(0, {}, {"text"})
      [] o = "network" -> Res(1, {}, {"Could not resolve hostname"})
      [] OTHER         -> Res(1, {}, {"text"})

\* 'git stash': pushes the modified tracked files, a no-op on a clean tree.
StashOutcomes ==
    IF ~HeadResolves THEN {"fail"}
    ELSE IF modified = {} THEN {"noop", "fail"}
    ELSE {"pushed", "fail"}

\* 'git pull --rebase origin main': refuses to start on a dirty tree.
PullOutcomes ==
    IF isRepo /\ origin # "none" /\ commits > 0
    THEN (IF remoteMain /\ modified = {} THEN {"ok", "conflict"} ELSE {})
         \cup {"network", "fail"}
    ELSE {"fail"}

PullRes(o) ==
    CASE o = "ok"       -> Res(0, {"text"}, {})
      [] o = "network"  -> Res(1, {}, {"Could not resolve hostname"})
      [] o = "conflict" -> Res(1, {"CONFLICT"}, {"text"})
      [] OTHER          -> Res(1, {}, {"text"})

\* 'git stash pop': applies and drops the top entry; on a conflict, or any
\* other failure, git keeps the entry; canConflict: the tree differs from
\* the one the entry was made on.
StashPopOutcomes(canConflict) ==
    IF ~isRepo THEN {"fail"}
    ELSE IF stash = <<>> THEN {"nostash"}
    ELSE {"ok", "fail"} \cup (IF canConflict THEN {"conflict"} ELSE {})

StashPopRes(o) ==
    CASE o = "ok"       -> Res(0, {"text"}, {})
      [] o = "nostash"  -> Res(1, {}, {"No stash"})
      [] o = "conflict" -> Res(1, {"CONFLICT"}, {"text"})
      [] OTHER          -> Res(1, {}, {"text"})

\* The effect of 'git stash pop' with outcome o on (stash, modified).
StashAfterPop(o) == IF o = "ok" THEN Tail(stash) ELSE stash

ModifiedAfterPop(o) ==
    IF o \in {"ok", "conflict"} THEN modified \cup Head(stash) ELSE modified


(***************************************************************************)
(* The environment: the Obsidian process and the user editing the vault.   *)
(* Popen returns before the process shows up in the process table, so the  *)
(* process is "launching" until psutil can see it.                         *)
(***************************************************************************)
\* a poll that always finds the process (mutant)
is_obsidian_running_Always == TRUE

\* is_obsidian_running, lines 110-117.
is_obsidian_running == editor = "running"

EditorAppears ==
    /\ editor = "launching"
    /\ editor' = "running"
    /\ UNCHANGED <<setupVars, cfgVars, repoVars, pc, events, committed, stashPushed, cycle>>

EditorExits ==
    /\ editor \in {"launching", "running"}
    /\ editor' = "absent"
    /\ UNCHANGED <<setupVars, cfgVars, repoVars, pc, events, committed, stashPushed, cycle>>

\* The user creates a file or modifies a tracked one while the editor is open.
UserEdits ==
    /\ editor = "running"
    /\ \E f \in Files :
          /\ vault' = vault \cup {f}
          /\ modified' = IF f \in tracked THEN modified \cup {f} ELSE modified
          /\ <<vault', modified'>> # <<vault, modified>>
    /\ UNCHANGED <<setupVars, cfgVars, isRepo, commits, origin, remoteMain, tracked, stash,
                   syncVars>>

(***************************************************************************)
(* auto_sync and sync_thread, lines 402-532.  The conditions the code      *)
(* evaluates on a command's result:                                        *)
(***************************************************************************)
\* line 460 (pull) and line 521 (push)
IsNetworkError(res) ==
    "Could not resolve hostname" \in res.err \/ "network" \in res.err

\* lines 462 and 478
HasConflict(res) == "CONFLICT" \in (res.out \cup res.err)

\* line 477 with the conflict case let through (mutant)
StashPopFailed_ConflictIgnored(res) ==
    res.rc # 0 /\ "No stash" \notin res.err /\ "CONFLICT" \notin res.out

\* line 477 without the "No stash" exemption (mutant)
StashPopFailed_AnyNonZero(res) == res.rc # 0

\* line 477
StashPopFailed(res) == res.rc # 0 /\ "No stash" \notin res.err

\* line 502
NothingToCommit(res) ==
    res.rc # 0 /\ "nothing to commit" \in (res.out \cup res.err)

\* line 440: 'if not ls_out.strip()'
RemoteBranchMissing(res) == res.out = {}

\* lines 219-231
ensure_placeholder_file(v) == v \cup {"README.md"}

PlaceholderLog(v) ==
    IF "README.md" \notin v
    THEN Log("Placeholder file 'README.md' created, as the vault was empty.", 5)
    ELSE Log("Placeholder file 'README.md' already exists.", 5)

\* Where sync_thread continues after a failed pull (line 466: the stash pop
\* before the return), and after the commit step (line 517).
\* a return right after the failure log, without the pop (mutant)
AfterPullFailure_NoPop == "done"

\* the pull issued again after it failed (mutant)
AfterPullFailure_PullsAgain == "pull"

AfterPullFailure == "popfail"

\* a push that does not look at 'committed' (mutant)
ShouldPush_Always(c) == TRUE

ShouldPush(c) == c

\* the cycle going on to the next step after the failure log (mutant)
AfterBaselineFailure_GoesOn == "lsremote"

\* Where sync_thread continues when the initial commit failed (line 433)
AfterBaselineFailure == "done"

\* lines 412-417
SyncStart ==
    /\ pc = "start"
    /\ IF Get(config_data, VAULT_PATH) = <<>> \/ Get(config_data, OBSIDIAN_PATH) = <<>>
       THEN /\ events' = events \o
                   <<Log("Vault path or Obsidian path not set. Please run setup again.",
                         NoProgress)>>
            /\ pc' = "off"
       ELSE /\ events' = events
            /\ pc' = "revparse"
    /\ UNCHANGED <<setupVars, cfgVars, repoVars, committed, stashPushed, editor, cycle>>

\* lines 421-426 and 434-435
SyncRevParse ==
    /\ pc = "revparse"
    /\ IF ~HeadResolves
       THEN /\ vault' = ensure_placeholder_file(vault)
            /\ events' = events \o
                   <<Cmd("git rev-parse HEAD", 1),
                     Log("No local commits detected. Checking if vault is empty...", 5),
                     PlaceholderLog(vault),
                     Log("Creating an initial commit...", 5)>>
            /\ pc' = "initcommit"
       ELSE /\ vault' = vault
            /\ events' = events \o
                   <<Cmd("git rev-parse HEAD", 0),
                     Log("Local repository has commits.", 5)>>
            /\ pc' = "lsremote"
    /\ UNCHANGED <<setupVars, cfgVars, isRepo, commits, origin, remoteMain, tracked, modified,
                   stash, committed, stashPushed, editor, cycle>>

\* lines 427-433
SyncInitialCommit ==
    /\ pc = "initcommit"
    /\ \E addRc \in AddOutcomes : \E o \in CommitOutcomes(addRc, vault) :
         LET res == CommitRes(o) IN
         /\ IF o = "ok"
            THEN /\ commits' = commits + 1
                 /\ tracked' = vault
                 /\ modified' = {}
            ELSE UNCHANGED <<commits, tracked, modified>>
         /\ IF res.rc = 0
            THEN /\ events' = events \o
                        <<Cmd("git add .", addRc), CmdO("git commit -m Initial commit (auto-sync)", o, res.rc),
                          Log("Initial commit created.", 5)>>
                 /\ pc' = "lsremote"
            ELSE /\ events' = events \o
                        <<Cmd("git add .", addRc), CmdO("git commit -m Initial commit (auto-sync)", o, res.rc),
                          Log("Error creating initial commit", 5)>>
                 /\ pc' = AfterBaselineFailure
    /\ UNCHANGED <<setupVars, cfgVars, isRepo, origin, remoteMain, vault, stash, committed,
                   stashPushed, editor, cycle>>

\* lines 438-441 and 449-450
SyncLsRemote ==
    /\ pc = "lsremote"
    /\ \E o \in LsRemoteOutcomes :
         LET res == LsRemoteRes(o) IN
         IF RemoteBranchMissing(res)
         THEN /\ events' = events \o
                     <<CmdO("git ls-remote --heads origin main", o, res.rc),
                       Log("Remote branch 'main' not found.", 10),
                       Log("Pushing initial commit to create the remote branch...", 10)>>
              /\ pc' = "pushu"
         ELSE /\ events' = events \o
                     <<CmdO("git ls-remote --heads origin main", o, res.rc),
                       Log("Remote branch 'main' exists. Proceeding with pull...", 10)>>
              /\ pc' = "stash"
    /\ UNCHANGED <<setupVars, cfgVars, repoVars, committed, stashPushed, editor, cycle>>

\* lines 443-448
SyncPushUpstream ==
    /\ pc = "pushu"
    /\ \E o \in PushOutcomes :
         LET res == PushRes(o) IN
         /\ remoteMain' = IF o = "ok" THEN TRUE ELSE remoteMain
         /\ IF res.rc = 0
            THEN /\ events' = events \o
                        <<CmdO("git push -u origin main", o, res.rc),
                          Log("Initial commit pushed successfully to remote repository.", 15)>>
                 /\ pc' = "stash"
            ELSE /\ events' = events \o
                        <<CmdO("git push -u origin main", o, res.rc),
                          Log("Error pushing initial commit", 15)>>
                 /\ pc' = "done"
    /\ UNCHANGED <<setupVars, cfgVars, isRepo, commits, origin, vault, tracked, modified, stash,
                   committed, stashPushed, editor, cycle>>

\* lines 452-454: the result of 'git stash' is not looked at
SyncStash ==
    /\ pc = "stash"
    /\ \E o \in StashOutcomes :
         /\ IF o = "pushed"
            THEN /\ stash' = <<modified>> \o stash
                 /\ modified' = {}
            ELSE UNCHANGED <<stash, modified>>
         /\ stashPushed' = (o = "pushed")
         /\ events' = events \o
                <<Log("Stashing local changes (if any)...", 15),
                  CmdO("git stash", o, IF o = "fail" THEN 1 ELSE 0)>>
    /\ pc' = "pull"
    /\ UNCHANGED <<setupVars, cfgVars, isRepo, commits, origin, remoteMain, vault, tracked,
                   committed, editor, cycle>>


PullFailureLog_Progress10(res) == Log("Pull failed", 10)

\* lines 460-465
PullFailureLog(res) ==
    IF IsNetworkError(res)
    THEN Log("Network error: Unable to pull changes. Your local changes remain safely stashed.", 30)
    ELSE IF HasConflict(res)
    THEN Log("Merge conflict occurred during pull. Please resolve conflicts manually.", 30)
    ELSE Log("Pull failed", 30)

\* lines 456-465 and 468-473
SyncPull ==
    /\ pc = "pull"
    /\ \E o \in PullOutcomes :
         LET res == PullRes(o) IN
         IF res.rc # 0
         THEN /\ events' = events \o
                     <<Log("Pulling latest changes from GitHub...", 20),
                       CmdO("git pull --rebase origin main", o, res.rc),
                       PullFailureLog(res)>>
              /\ pc' = AfterPullFailure
         ELSE /\ events' = events \o
                     <<Log("Pulling latest changes from GitHub...", 20),
                       CmdO("git pull --rebase origin main", o, res.rc),
                       Log("Pull completed successfully. Your vault is now updated with remote changes.", 30)>>
                     \o (IF res.out # {} THEN <<Log("pull detail line", NoProgress)>>
                         ELSE <<>>)
              /\ pc' = "pop"
    /\ UNCHANGED <<setupVars, cfgVars, repoVars, committed, stashPushed, editor, cycle>>

\* lines 466-467: the pop after a failed pull; its result is not looked at
SyncPopAfterPullFailure ==
    /\ pc = "popfail"
    /\ \E o \in StashPopOutcomes(~(stashPushed /\
                   LastOutcome(events, "git pull --rebase origin main") = "network")) :
         /\ stash' = StashAfterPop(o)
         /\ modified' = ModifiedAfterPop(o)
         /\ events' = events \o <<CmdO("git stash pop", o, StashPopRes(o).rc)>>
    /\ pc' = "done"
    /\ UNCHANGED <<setupVars, cfgVars, isRepo, commits, origin, remoteMain, vault, tracked,
                   committed, stashPushed, editor, cycle>>

\* lines 475-484
SyncStashPop ==
    /\ pc = "pop"
    /\ \E o \in StashPopOutcomes(TRUE) :
         LET res == StashPopRes(o) IN
         /\ stash' = StashAfterPop(o)
         /\ modified' = ModifiedAfterPop(o)
         /\ IF StashPopFailed(res)
            THEN /\ events' = events \o
                        <<CmdO("git stash pop", o, res.rc),
                          IF HasConflict(res)
                          THEN Log("Merge conflict while reapplying your stashed changes. Please resolve manually.", 35)
                          ELSE Log("Stash pop error", 35)>>
                 /\ pc' = "done"
            ELSE /\ events' = events \o
                        <<CmdO("git stash pop", o, res.rc),
                          Log("Local changes reapplied successfully.", 35)>>
                 /\ pc' = "launch"
    /\ UNCHANGED <<setupVars, cfgVars, isRepo, commits, origin, remoteMain, vault, tracked,
                   committed, stashPushed, editor, cycle>>

\* lines 486-493
SyncLaunchEditor ==
    /\ pc = "launch"
    /\ \E o \in {"started", "exception"} :
         IF o = "started"
         THEN /\ editor' = IF editor = "absent" THEN "launching" ELSE editor
              /\ events' = events \o
                     <<Log("Opening Obsidian for editing. Please make your changes and close Obsidian when done.", 40),
                       CmdO("Popen obsidian", o, 0),
                       Log("Waiting for Obsidian to close...", 45)>>
              /\ pc' = "wait"
         ELSE /\ editor' = editor
              /\ events' = events \o
                     <<Log("Opening Obsidian for editing. Please make your changes and close Obsidian when done.", 40),
                       CmdO("Popen obsidian", o, 1),
                       Log("Error launching Obsidian", 40)>>
              /\ pc' = "done"
    /\ UNCHANGED <<setupVars, cfgVars, repoVars, committed, stashPushed, cycle>>

\* lines 494-495: the poll loop is left once no process is named obsidian.exe
SyncWaitEditor ==
    /\ pc = "wait"
    /\ ~is_obsidian_running
    /\ pc' = "commit"
    /\ UNCHANGED <<setupVars, cfgVars, repoVars, events, committed, stashPushed, editor, cycle>>

\* lines 497-514
SyncCommit ==
    /\ pc = "commit"
    /\ \E addRc \in AddOutcomes : \E o \in CommitOutcomes(addRc, vault) :
         LET res == CommitRes(o)
             head == <<Log("Obsidian closed. Committing local changes...", 50),
                       Cmd("git add .", addRc),
                       CmdO("git commit -m Auto sync commit", o, res.rc)>>
         IN
         /\ IF o = "ok"
            THEN /\ commits' = commits + 1
                 /\ tracked' = vault
                 /\ modified' = {}
            ELSE UNCHANGED <<commits, tracked, modified>>
         /\ IF NothingToCommit(res)
            THEN /\ events' = events \o head \o
                        <<Log("No changes detected during this session. Nothing to commit.", 55)>>
                 /\ committed' = FALSE
                 /\ pc' = "push"
            ELSE IF res.rc # 0
            THEN /\ events' = events \o head \o <<Log("Commit failed", 55)>>
                 /\ committed' = TRUE
                 /\ pc' = "done"
            ELSE /\ events' = events \o head \o
                        <<Log("Local commit successful.", 55),
                          Cmd("git diff-tree", 0),
                          Log("commit detail line", NoProgress)>>
                 /\ committed' = TRUE
                 /\ pc' = "push"
    /\ UNCHANGED <<setupVars, cfgVars, isRepo, origin, remoteMain, vault, stash, stashPushed,
                   editor, cycle>>

\* lines 516-530
SyncPush ==
    /\ pc = "push"
    /\ IF ShouldPush(committed)
       THEN \E o \in PushOutcomes :
              LET res == PushRes(o)
                  head == <<Log("Pushing changes to GitHub...", 60),
                            CmdO("git push origin main", o, res.rc)>>
              IN
              /\ remoteMain' = IF o = "ok" THEN TRUE ELSE remoteMain
              /\ IF res.rc # 0
                 THEN events' = events \o head \o
                        <<IF IsNetworkError(res)
                          THEN Log("Network error while pushing. Your changes are safely committed locally.", 70)
                          ELSE Log("Push failed", 70)>>
                 ELSE events' = events \o head \o
                        <<Log("Changes pushed successfully to GitHub.", 70),
                          Log("Sync complete. You can close this window now.", 100)>>
       ELSE /\ remoteMain' = remoteMain
            /\ events' = events \o
                   <<Log("No changes to push.", 70),
                     Log("Sync complete. You can close this window now.", 100)>>
    /\ pc' = "done"
    /\ UNCHANGED <<setupVars, cfgVars, isRepo, commits, origin, vault, tracked, modified, stash,
                   committed, stashPushed, editor, cycle>>

\* The wizard's variables while the program runs auto_sync.
SetupIdle ==
    /\ wpc = "autosync"
    /\ tpc = [t \in Threads |-> "idle"]
    /\ kpc = [t \in KeygenThreads |-> "idle"]
    /\ keyPub = TRUE
    /\ keyPriv = TRUE
    /\ keyOverwritten = FALSE
    /\ knownHosts = 1
    /\ scmds = {}
    /\ slog = {}
    /\ repo0 = Snapshot
    /\ runs = 1

\* The program is started again (main, lines 605-616): SETUP_DONE is "1", so
\* auto_sync runs a fresh cycle on the repository as the last one left it.
NewCycle ==
    /\ pc \in {"done", "off"}
    /\ cycle < MaxCycles
    /\ cycle' = cycle + 1
    /\ pc' = "start"
    /\ events' = <<>>
    /\ committed' = FALSE
    /\ stashPushed' = FALSE
    /\ repo0' = Snapshot
    /\ UNCHANGED <<wpc, tpc, kpc, keyVars, knownHosts, scmds, slog, runs, cfgVars,
                   repoVars, editor>>

InitSync ==
    /\ \E v \in {<<>>, <<"vault">>}, o \in {<<>>, <<"Obsidian.exe">>} :
         config_data = <<<<VAULT_PATH, v>>, <<OBSIDIAN_PATH, o>>, <<SETUP_DONE, <<"1">>>>>>
    /\ config_file = save_config(config_data)
    /\ saved = config_data
    /\ cfgpc = "off"
    /\ isRepo \in BOOLEAN
    /\ commits \in (IF isRepo THEN {0, 1} ELSE {0})
    /\ origin \in (IF isRepo THEN {"none", "url1"} ELSE {"none"})
    /\ remoteMain \in (IF origin # "none" THEN BOOLEAN ELSE {FALSE})
    /\ vault \in SUBSET Files
    /\ tracked \in (IF commits > 0 THEN (SUBSET vault) \ {{}} ELSE {{}})
    /\ modified \in SUBSET tracked
    /\ stash = <<>>
    /\ pc = "start"
    /\ events = <<>>
    /\ committed = FALSE
    /\ stashPushed = FALSE
    /\ editor = "absent"
    /\ cycle = 1
    /\ SetupIdle

NextSync ==
    \/ SyncStart
    \/ SyncRevParse
    \/ SyncInitialCommit
    \/ SyncLsRemote
    \/ SyncPushUpstream
    \/ SyncStash
    \/ SyncPull
    \/ SyncPopAfterPullFailure
    \/ SyncStashPop
    \/ SyncLaunchEditor
    \/ SyncWaitEditor
    \/ SyncCommit
    \/ SyncPush
    \/ NewCycle
    \/ EditorAppears
    \/ EditorExits
    \/ UserEdits

SpecSync == InitSync /\ [][NextSync]_vars

\* The steps of auto_sync and of the thread it starts (line 532): a sequential
\* program, one step enabled at a time.
SyncThreadStep ==
    \/ SyncStart
    \/ SyncRevParse
    \/ SyncInitialCommit
    \/ SyncLsRemote
    \/ SyncPushUpstream
    \/ SyncStash
    \/ SyncPull
    \/ SyncPopAfterPullFailure
    \/ SyncStashPop
    \/ SyncLaunchEditor
    \/ SyncWaitEditor
    \/ SyncCommit
    \/ SyncPush

\* The sync cycle with its scheduling: the thread keeps running (every
\* command it waits for in subprocess.run returns, the poll of lines 494-495
\* is repeated every half second), and an editor process that was started
\* exits at some point.  Starting the program again and editing are left to
\* the user.
SpecSyncLive ==
    /\ InitSync
    /\ [][NextSync]_vars
    /\ WF_vars(SyncThreadStep)
    /\ WF_vars(EditorExits)


(***************************************************************************)
(* The one-time setup: run_setup_wizard on the main thread, the threads    *)
(* started by re_test_ssh and generate_ssh_key, and the program being      *)
(* closed and started again.                                               *)
(***************************************************************************)
\* The log lines and dialogs, and the commands, that the properties of the
\* setup look at; slog and scmds record these and no others.  A command is
\* recorded with "ok" for return code 0 ("ssh -T": for the authenticated
\* greeting) and "fail" otherwise.
ObservedLog ==
    {"Error initializing Git repository", "Error removing existing remote",
     "Error setting Git remote", "Error committing files",
     "Error pushing initial commit",
     "Keeping the existing 'origin' remote. Skipping new remote configuration.",
     "Skipping GitHub remote setup. You can set this up later manually."}

ObservedCmds ==
    {"ssh -T git@github.com", "git init", "git commit -m Initial commit",
     "git push -u origin main"}

Noted(ms) == ms \cap ObservedLog

Seen(cs) == {c \in cs : c[1] \in ObservedCmds}

\* A git command of the wizard runs with cwd=VAULT_PATH: with an empty path
\* run_command cannot start it and returns rc 1.
VaultSet == Get(config_data, VAULT_PATH) # <<>>

\* The wizard has returned and main is in root.mainloop (line 622), where the
\* buttons of create_wizard_ui act: "ui" after the wizard ran to its end,
\* "aborted" after it returned early.
InMainloop == wpc \in {"ui", "aborted"}

\* lines 549-557
WizFindObsidian ==
    /\ wpc = "w_obsidian"
    /\ \E path \in {<<>>, <<"Obsidian.exe">>} :
         IF path = <<>>
         THEN /\ slog' = slog \cup Noted({"Running first-time setup...",
                                    "dialog: Setup Aborted. Obsidian not found."})
              /\ config_data' = config_data
              /\ wpc' = "aborted"
         ELSE /\ slog' = slog \cup Noted({"Running first-time setup...", "Obsidian found"})
              /\ config_data' = Put(config_data, OBSIDIAN_PATH, path)
              /\ wpc' = "w_vault"
    /\ UNCHANGED <<config_file, rtVars, repoVars, syncVars, tpc, kpc, keyVars, knownHosts,
                   scmds, repo0, runs>>

\* lines 559-567
WizVault ==
    /\ wpc = "w_vault"
    /\ LET loaded == load_config(config_data, config_file) IN
       IF Get(loaded, VAULT_PATH) = <<>>
       THEN \E sel \in {<<>>, <<"vault">>} :
              IF sel = <<>>
              THEN /\ slog' = slog \cup Noted({"dialog: Setup Aborted. No vault folder selected."})
                   /\ config_data' = loaded
                   /\ wpc' = "aborted"
              ELSE /\ slog' = slog \cup Noted({"Vault path set"})
                   /\ config_data' = Put(loaded, VAULT_PATH, sel)
                   /\ wpc' = "w_git"
       ELSE /\ slog' = slog \cup Noted({"Vault path set"})
            /\ config_data' = loaded
            /\ wpc' = "w_git"
    /\ UNCHANGED <<config_file, rtVars, repoVars, syncVars, tpc, kpc, keyVars, knownHosts,
                   scmds, repo0, runs>>

\* lines 569-574, is_git_installed 275-280
WizGit ==
    /\ wpc = "w_git"
    /\ \E o \in {"ok", "fail"} :
         /\ scmds' = scmds \cup Seen({<<"git --version", o>>})
         /\ IF o = "ok"
            THEN /\ slog' = slog \cup Noted({"Checking Git installation...", "Git is installed."})
                 /\ wpc' = "w_init"
            ELSE /\ slog' = slog \cup Noted({"Checking Git installation...",
                                       "dialog: Setup Aborted. Git is not installed."})
                 /\ wpc' = "aborted"
    /\ UNCHANGED <<cfgVars, repoVars, syncVars, tpc, kpc, keyVars, knownHosts,
                   repo0, runs>>

\* initialize_git_repo, lines 148-162, called at line 577
initialize_git_repo ==
    IF ~isRepo
    THEN \E o \in {"ok", "fail"} :
           IF o = "ok"
           THEN \E b \in {"ok", "fail"} :
                  /\ isRepo' = TRUE
                  /\ scmds' = scmds \cup Seen({<<"git init", o>>, <<"git branch -M main", b>>})
                  /\ slog' = slog \cup Noted({"Initializing Git repository in vault...",
                                        "Git repository initialized successfully."})
           ELSE /\ isRepo' = isRepo
                /\ scmds' = scmds \cup Seen({<<"git init", o>>})
                /\ slog' = slog \cup Noted({"Initializing Git repository in vault...",
                                      "Error initializing Git repository"})
    ELSE /\ isRepo' = isRepo
         /\ scmds' = scmds
         /\ slog' = slog \cup Noted({"Vault is already a Git repository."})

WizInit ==
    /\ wpc = "w_init"
    /\ initialize_git_repo
    /\ wpc' = "w_remote"
    /\ UNCHANGED <<cfgVars, commits, origin, remoteMain, vault, tracked, modified,
                   stash, syncVars, tpc, kpc, keyVars, knownHosts, repo0, runs>>

\* set_github_remote, lines 164-217, for the user's answers: override (176),
\* link (194), url (199, "" when the dialog is cancelled), and the outcomes
\* of 'git remote remove origin' (187) and 'git remote add origin' (205).
\* The value is the remote afterwards, the return value, the log lines and
\* the commands run.
set_github_remote(override, removeOk, link, url, addOk) ==
    LET exists  == isRepo /\ origin # "none"
        probe   == {<<"git remote get-url origin", IF exists THEN "ok" ELSE "fail">>}
        keep    == [origin |-> origin, ret |-> TRUE,
                    log |-> {"A remote named 'origin' already exists",
                             "Keeping the existing 'origin' remote. Skipping new remote configuration."},
                    cmds |-> probe]
        rmFail  == [origin |-> origin, ret |-> FALSE,
                    log |-> {"A remote named 'origin' already exists",
                             "Error removing existing remote"},
                    cmds |-> probe \cup {<<"git remote remove origin", "fail">>}]
        preLog  == IF exists
                   THEN {"A remote named 'origin' already exists",
                         "Existing 'origin' remote removed."}
                   ELSE {}
        preCmds == IF exists
                   THEN probe \cup {<<"git remote remove origin", "ok">>}
                   ELSE probe
        canAdd  == isRepo /\ addOk
    IN
    IF exists /\ ~override THEN keep
    ELSE IF exists /\ ~removeOk THEN rmFail
    ELSE IF ~link
    THEN [origin |-> "none", ret |-> TRUE,
          log |-> preLog \cup {"Skipping GitHub remote setup. You can set this up later manually."},
          cmds |-> preCmds]
    ELSE IF url = ""
    THEN [origin |-> "none", ret |-> FALSE,
          log |-> preLog \cup {"dialog: Error. Repository URL not provided."},
          cmds |-> preCmds]
    ELSE IF canAdd
    THEN [origin |-> url, ret |-> TRUE,
          log |-> preLog \cup {"Git remote 'origin' set"},
          cmds |-> preCmds \cup {<<"git remote add origin", "ok">>}]
    ELSE [origin |-> "none", ret |-> FALSE,
          log |-> preLog \cup {"Error setting Git remote"},
          cmds |-> preCmds \cup {<<"git remote add origin", "fail">>}]

\* lines 579-581
WizRemote ==
    /\ wpc = "w_remote"
    /\ \E override, removeOk, link, addOk \in BOOLEAN : \E url \in {"", "url2"} :
         LET r == set_github_remote(override, removeOk, link, url, addOk) IN
         /\ origin' = r.origin
         /\ remoteMain' = IF r.origin = origin THEN remoteMain ELSE FALSE
         /\ slog' = slog \cup Noted(r.log)
         /\ scmds' = scmds \cup Seen(r.cmds)
         /\ wpc' = IF r.ret THEN "w_sshkey" ELSE "aborted"
    /\ UNCHANGED <<cfgVars, isRepo, commits, vault, tracked, modified, stash,
                   syncVars, tpc, kpc, keyVars, knownHosts, repo0, runs>>

\* generate_ssh_key, lines 371-381: askstring, then the thread is started
StartKeygen(kpc0, email) ==
    IF email /\ \E k \in KeygenThreads : kpc0[k] = "idle"
    THEN [kpc0 EXCEPT ![CHOOSE k \in KeygenThreads : kpc0[k] = "idle"] = "k_check"]
    ELSE kpc0

\* lines 583-595
WizSshKey ==
    /\ wpc = "w_sshkey"
    /\ IF ~keyPub
       THEN \E resp, email \in BOOLEAN :
              IF resp
              THEN /\ kpc' = StartKeygen(kpc, email)
                   /\ slog' = slog \cup Noted(
                        {"Checking SSH key...",
                         "Please add the generated key to GitHub, then click 'Re-test SSH'."}
                        \cup (IF email THEN {} ELSE {"dialog: Email Required."}))
              ELSE /\ kpc' = kpc
                   /\ slog' = slog \cup Noted({"Checking SSH key...", "dialog: SSH Key Required."})
       ELSE /\ kpc' = kpc
            /\ slog' = slog \cup Noted({"Checking SSH key...", "SSH key found."})
    /\ wpc' = "w_retest"
    /\ UNCHANGED <<cfgVars, repoVars, syncVars, tpc, keyVars, knownHosts, scmds,
                   repo0, runs>>

\* re_test_ssh, lines 294-317: starts one more _test_thread
re_test_ssh(t) ==
    /\ tpc[t] = "idle"
    /\ \A u \in Threads : u < t => tpc[u] # "idle"
    /\ tpc' = [tpc EXCEPT ![t] = "known_host"]

\* line 598
WizRetest ==
    /\ wpc = "w_retest"
    /\ \E t \in Threads : re_test_ssh(t)
    /\ wpc' = "ui"
    /\ UNCHANGED <<cfgVars, repoVars, syncVars, kpc, keyVars, knownHosts, scmds,
                   slog, repo0, runs>>

\* The 'Re-test SSH' button, lines 674-678
ClickRetest ==
    /\ InMainloop
    /\ \E t \in Threads : re_test_ssh(t)
    /\ UNCHANGED <<cfgVars, repoVars, syncVars, wpc, kpc, keyVars, knownHosts, scmds,
                   slog, repo0, runs>>

\* The 'Generate SSH Key' button, lines 665-666
ClickGenerate ==
    /\ InMainloop
    /\ \E email \in BOOLEAN :
         /\ kpc' = StartKeygen(kpc, email)
         /\ slog' = slog \cup Noted((IF email THEN {} ELSE {"dialog: Email Required."}))
         /\ <<kpc', slog'>> # <<kpc, slog>>
    /\ UNCHANGED <<cfgVars, repoVars, syncVars, wpc, tpc, keyVars, knownHosts, scmds,
                   repo0, runs>>

\* post_generate_ssh_key, lines 351-359, scheduled at line 369
PostGenerateDialog == {"dialog: Your SSH key has been generated (if it didn't exist)."}

\* generate_ssh_key_async, lines 361-367 (and 369 when the key exists)
KeygenCheck(k) ==
    /\ kpc[k] = "k_check"
    /\ IF ~keyPub
       THEN /\ kpc' = [kpc EXCEPT ![k] = "k_gen"]
            /\ slog' = slog \cup Noted({"Generating SSH Key..."})
       ELSE /\ kpc' = [kpc EXCEPT ![k] = "idle"]
            /\ slog' = slog \cup Noted(PostGenerateDialog)
    /\ UNCHANGED <<cfgVars, repoVars, syncVars, wpc, tpc, keyVars, knownHosts, scmds,
                   repo0, runs>>

\* lines 368-369: ssh-keygen -f id_rsa -N "".  When a key file is already
\* there ssh-keygen asks whether to overwrite it and reads the answer from
\* the standard input the program was started with: either answer can result.
KeygenRun(k) ==
    /\ kpc[k] = "k_gen"
    /\ \E o \in (IF keyPriv \/ keyPub THEN {"overwritten", "kept"} ELSE {"ok", "fail"}) :
         /\ keyPub' = IF o \in {"ok", "overwritten"} THEN TRUE ELSE keyPub
         /\ keyPriv' = IF o \in {"ok", "overwritten"} THEN TRUE ELSE keyPriv
         /\ keyOverwritten' = (keyOverwritten \/ o = "overwritten")
         /\ scmds' = scmds \cup Seen({<<"ssh-keygen", o>>})
    /\ slog' = slog \cup Noted(PostGenerateDialog)
    /\ kpc' = [kpc EXCEPT ![k] = "idle"]
    /\ UNCHANGED <<cfgVars, repoVars, syncVars, wpc, tpc, knownHosts, repo0, runs>>

\* _test_thread, line 300, and ensure_github_known_host, lines 89-95
TestKnownHost(t) ==
    /\ tpc[t] = "known_host"
    /\ tpc' = [tpc EXCEPT ![t] = IF knownHosts > 0 THEN "ssh" ELSE "keyscan"]
    /\ slog' = slog \cup Noted({"Re-testing SSH connection to GitHub..."})
    /\ UNCHANGED <<cfgVars, repoVars, syncVars, wpc, kpc, keyVars, knownHosts, scmds,
                   repo0, runs>>

\* ensure_github_known_host, lines 97-107
TestKeyscan(t) ==
    /\ tpc[t] = "keyscan"
    /\ \E o \in {"ok", "fail"} :
         /\ knownHosts' = IF o = "ok" THEN knownHosts + 1 ELSE knownHosts
         /\ scmds' = scmds \cup Seen({<<"ssh-keyscan -t rsa github.com", o>>})
         /\ slog' = slog \cup Noted({"Adding GitHub to known hosts (ssh-keyscan)..."}
                \cup (IF o = "ok" THEN {}
                      ELSE {"Warning: Could not fetch GitHub host key automatically."}))
    /\ tpc' = [tpc EXCEPT ![t] = "ssh"]
    /\ UNCHANGED <<cfgVars, repoVars, syncVars, wpc, kpc, keyVars, repo0, runs>>

\* test_ssh_connection_sync, lines 282-292: the texts of 'ssh -T git@github.com'
SshRes(o) ==
    IF o = "ok" THEN Res(1, {}, {"successfully authenticated"})
    ELSE Res(255, {}, {"text"})

test_ssh_connection_sync(res) ==
    "successfully authenticated" \in (res.out \cup res.err)

\* Where _test_thread continues when the test failed (lines 314-315).
AfterSshFailure_MarksDone == "mark"

AfterSshFailure == "idle"

\* lines 303-304 and 314-315
TestSsh(t) ==
    /\ tpc[t] = "ssh"
    /\ \E o \in {"ok", "fail"} :
         /\ scmds' = scmds \cup Seen({<<"ssh -T git@github.com", o>>})
         /\ IF test_ssh_connection_sync(SshRes(o))
            THEN /\ slog' = slog \cup Noted({"SSH connection successful!"})
                 /\ tpc' = [tpc EXCEPT ![t] = "icp_revparse"]
            ELSE /\ slog' = slog \cup Noted({"SSH connection still failed."})
                 /\ tpc' = [tpc EXCEPT ![t] = AfterSshFailure]
    /\ UNCHANGED <<cfgVars, repoVars, syncVars, wpc, kpc, keyVars, knownHosts, repo0,
                   runs>>

\* Where perform_initial_commit_and_push continues after a successful commit
\* (line 337) and where _test_thread continues when the commit or the push
\* failed (lines 341 and 343, then line 310).
AfterInitialCommit == "icp_push"

AfterCommitFailure == "mark"

AfterPushFailure == "mark"

\* perform_initial_commit_and_push, lines 325-328 and 344-346
TestRevParse(t) ==
    /\ tpc[t] = "icp_revparse"
    /\ IF VaultSet /\ HeadResolves
       THEN /\ scmds' = scmds \cup Seen({<<"git rev-parse HEAD", "ok">>})
            /\ slog' = slog \cup Noted(
                 {"Local repository already has commits. Skipping initial commit step."})
            /\ tpc' = [tpc EXCEPT ![t] = "mark"]
       ELSE /\ scmds' = scmds \cup Seen({<<"git rev-parse HEAD", "fail">>})
            /\ slog' = slog \cup Noted({"No local commits detected. Creating initial commit..."})
            /\ tpc' = [tpc EXCEPT ![t] = "icp_commit"]
    /\ UNCHANGED <<cfgVars, repoVars, syncVars, wpc, kpc, keyVars, knownHosts, repo0,
                   runs>>

\* lines 330-335 and 342-343
TestInitialCommit(t) ==
    /\ tpc[t] = "icp_commit"
    /\ \E addRc \in (IF VaultSet THEN AddOutcomes ELSE {1}) :
       \E o \in (IF VaultSet THEN CommitOutcomes(addRc, vault) ELSE {"fail"}) :
         LET res == CommitRes(o) IN
         /\ IF o = "ok"
            THEN /\ commits' = commits + 1
                 /\ tracked' = vault
                 /\ modified' = {}
            ELSE UNCHANGED <<commits, tracked, modified>>
         /\ scmds' = scmds \cup Seen({<<"git add .", IF addRc = 0 THEN "ok" ELSE "fail">>,
                                 <<"git commit -m Initial commit",
                                   IF res.rc = 0 THEN "ok" ELSE "fail">>})
         /\ IF res.rc = 0
            THEN /\ slog' = slog
                 /\ tpc' = [tpc EXCEPT ![t] = AfterInitialCommit]
            ELSE /\ slog' = slog \cup Noted({"Error committing files"})
                 /\ tpc' = [tpc EXCEPT ![t] = AfterCommitFailure]
    /\ UNCHANGED <<cfgVars, isRepo, origin, remoteMain, vault, stash, syncVars, wpc,
                   kpc, keyVars, knownHosts, repo0, runs>>

\* lines 336-341
TestInitialPush(t) ==
    /\ tpc[t] = "icp_push"
    /\ \E o \in (IF VaultSet THEN PushOutcomes ELSE {"fail"}) :
         LET res == PushRes(o) IN
         /\ remoteMain' = IF o = "ok" THEN TRUE ELSE remoteMain
         /\ scmds' = scmds \cup Seen({<<"git push -u origin main",
                                   IF res.rc = 0 THEN "ok" ELSE "fail">>})
         /\ IF res.rc = 0
            THEN /\ slog' = slog \cup Noted(
                      {"Initial commit pushed to remote repository successfully."})
                 /\ tpc' = [tpc EXCEPT ![t] = "mark"]
            ELSE /\ slog' = slog \cup Noted({"Error pushing initial commit"})
                 /\ tpc' = [tpc EXCEPT ![t] = AfterPushFailure]
    /\ UNCHANGED <<cfgVars, isRepo, commits, origin, vault, tracked, modified, stash,
                   syncVars, wpc, kpc, keyVars, knownHosts, repo0, runs>>

\* line 310
TestMarkDone(t) ==
    /\ tpc[t] = "mark"
    /\ config_data' = Put(config_data, SETUP_DONE, <<"1">>)
    /\ tpc' = [tpc EXCEPT ![t] = "save"]
    /\ UNCHANGED <<config_file, rtVars, repoVars, syncVars, wpc, kpc, keyVars, knownHosts,
                   scmds, slog, repo0, runs>>

\* lines 311-313
TestSave(t) ==
    /\ tpc[t] = "save"
    /\ config_file' = save_config(config_data)
    /\ slog' = slog \cup Noted({"Setup complete! You can now close this window or start sync."})
    /\ tpc' = [tpc EXCEPT ![t] = "idle"]
    /\ UNCHANGED <<config_data, rtVars, repoVars, syncVars, wpc, kpc, keyVars, knownHosts,
                   scmds, repo0, runs>>

\* The window is closed (the daemon threads die with the process) and the
\* program is started again: main, lines 605-620.
Relaunch ==
    /\ InMainloop
    /\ runs < MaxRuns
    /\ runs' = runs + 1
    /\ config_data' = load_config(Defaults, config_file)
    /\ wpc' = IF Get(config_data', SETUP_DONE) = <<"1">> THEN "autosync" ELSE "w_obsidian"
    /\ tpc' = [t \in Threads |-> "idle"]
    /\ kpc' = [t \in KeygenThreads |-> "idle"]
    /\ scmds' = {}
    /\ slog' = {}
    /\ repo0' = Snapshot
    /\ UNCHANGED <<config_file, rtVars, repoVars, syncVars, keyVars, knownHosts>>

\* The vault folders the wizard is run on: a fresh folder (empty or holding
\* notes), a repository without commits whose remote is already linked, and
\* a repository that is initialised, linked and holds a pushed commit.
InitialVaults ==
    {[isRepo |-> FALSE, commits |-> 0, origin |-> "none", remoteMain |-> FALSE,
      vault |-> {}],
     [isRepo |-> FALSE, commits |-> 0, origin |-> "none", remoteMain |-> FALSE,
      vault |-> {"note.md"}],
     [isRepo |-> TRUE, commits |-> 0, origin |-> "url1", remoteMain |-> FALSE,
      vault |-> {"note.md"}],
     [isRepo |-> TRUE, commits |-> 1, origin |-> "url1", remoteMain |-> TRUE,
      vault |-> {"note.md"}]}

InitSetup ==
    /\ config_data = Defaults
    /\ config_file = NoFile
    /\ saved = config_data
    /\ cfgpc = "off"
    /\ \E r \in InitialVaults :
         /\ isRepo = r.isRepo
         /\ commits = r.commits
         /\ origin = r.origin
         /\ remoteMain = r.remoteMain
         /\ vault = r.vault
    /\ tracked = (IF commits > 0 THEN vault ELSE {})
    /\ modified = {}
    /\ stash = <<>>
    /\ pc = "off"
    /\ events = <<>>
    /\ committed = FALSE
    /\ stashPushed = FALSE
    /\ editor = "absent"
    /\ cycle = 0
    /\ wpc = "w_obsidian"
    /\ tpc = [t \in Threads |-> "idle"]
    /\ kpc = [t \in KeygenThreads |-> "idle"]
    /\ keyPub \in BOOLEAN
    /\ keyPriv \in {keyPub, TRUE}
    /\ keyOverwritten = FALSE
    /\ knownHosts \in {0, 1}
    /\ scmds = {}
    /\ slog = {}
    /\ repo0 = Snapshot
    /\ runs = 1

NextSetup ==
    \/ WizFindObsidian
    \/ WizVault
    \/ WizGit
    \/ WizInit
    \/ WizRemote
    \/ WizSshKey
    \/ WizRetest
    \/ ClickRetest
    \/ ClickGenerate
    \/ Relaunch
    \/ \E k \in KeygenThreads : KeygenCheck(k)
    \/ \E k \in KeygenThreads : KeygenRun(k)
    \/ \E t \in Threads : TestKnownHost(t)
    \/ \E t \in Threads : TestKeyscan(t)
    \/ \E t \in Threads : TestSsh(t)
    \/ \E t \in Threads : TestRevParse(t)
    \/ \E t \in Threads : TestInitialCommit(t)
    \/ \E t \in Threads : TestInitialPush(t)
    \/ \E t \in Threads : TestMarkDone(t)
    \/ \E t \in Threads : TestSave(t)

SpecSetup == InitSetup /\ [][NextSetup]_vars

(***************************************************************************)
(* The configuration written and read back: the program starts on a        *)
(* config.txt that is absent or was edited by hand, the wizard stores the  *)
(* folder the user picked, save_config writes the dict, and load_config    *)
(* reads it, in the same process (line 560) or in the next one (line 606). *)
(***************************************************************************)
Chars == {"a", " ", EQ, NL}

Texts(n) == UNION {[1..k -> Chars] : k \in 0..n}

\* main, line 606
CfgStart ==
    /\ cfgpc = "boot"
    /\ config_data' = load_config(config_data, config_file)
    /\ cfgpc' = "run"
    /\ UNCHANGED <<config_file, saved, repoVars, syncVars, setupVars>>

\* lines 561-565: the folder returned by select_vault_path
CfgSetVault ==
    /\ cfgpc = "run"
    /\ \E sel \in Texts(MaxLen) \ {<<>>} :
         config_data' = Put(config_data, VAULT_PATH, sel)
    /\ cfgpc' = "set"
    /\ UNCHANGED <<config_file, saved, repoVars, syncVars, setupVars>>

\* save_config, as called at line 311
CfgSave ==
    /\ cfgpc \in {"run", "set"}
    /\ config_file' = save_config(config_data)
    /\ saved' = config_data
    /\ cfgpc' = "saved"
    /\ UNCHANGED <<config_data, repoVars, syncVars, setupVars>>

\* load_config in the process that saved, as called at line 560
CfgLoad ==
    /\ cfgpc = "saved"
    /\ config_data' = load_config(config_data, config_file)
    /\ cfgpc' = "loaded"
    /\ UNCHANGED <<config_file, saved, repoVars, syncVars, setupVars>>

\* load_config in a new process, line 606 on the dict of lines 17-21
CfgRestart ==
    /\ cfgpc = "saved"
    /\ config_data' = load_config(Defaults, config_file)
    /\ cfgpc' = "loaded"
    /\ UNCHANGED <<config_file, saved, repoVars, syncVars, setupVars>>

InitConfig ==
    /\ config_data = Defaults
    /\ config_file \in {NoFile} \cup
                       {[exists |-> TRUE, text |-> t] : t \in Texts(MaxFileLen)}
    /\ saved = config_data
    /\ cfgpc = "boot"
    /\ isRepo = FALSE
    /\ commits = 0
    /\ origin = "none"
    /\ remoteMain = FALSE
    /\ vault = {}
    /\ tracked = {}
    /\ modified = {}
    /\ stash = <<>>
    /\ pc = "off"
    /\ events = <<>>
    /\ committed = FALSE
    /\ stashPushed = FALSE
    /\ editor = "absent"
    /\ cycle = 0
    /\ wpc = "off"
    /\ tpc = [t \in Threads |-> "idle"]
    /\ kpc = [t \in KeygenThreads |-> "idle"]
    /\ keyPub = FALSE
    /\ keyPriv = FALSE
    /\ keyOverwritten = FALSE
    /\ knownHosts = 0
    /\ scmds = {}
    /\ slog = {}
    /\ repo0 = Snapshot
    /\ runs = 1

NextConfig ==
    \/ CfgStart
    \/ CfgSetVault
    \/ CfgSave
    \/ CfgLoad
    \/ CfgRestart

SpecConfig == InitConfig /\ [][NextConfig]_vars

(***************************************************************************)
(* Properties of the sync cycle                                            *)
(***************************************************************************)
\* The commands of the current cycle, in order.
CmdsOf(ev) == SelectSeq(ev, LAMBDA e : e.k = "cmd")

\* How many times command c was run in the current cycle.
CountCmd(ev, c) == Len(SelectSeq(ev, LAMBDA e : e.k = "cmd" /\ e.v = c))

\* Position of the last run of command c in ev, 0 when none.
LastIndex(ev, c) ==
    LET idx == {i \in 1..Len(ev) : ev[i].k = "cmd" /\ ev[i].v = c} IN
    IF idx = {} THEN 0 ELSE CHOOSE i \in idx : \A j \in idx : j <= i

PullOutcome == LastOutcome(events, "git pull --rebase origin main")

PopOutcome == LastOutcome(events, "git stash pop")

\* Commands that belong to the steps after the stash reapply.
LaterStepCmds ==
    {"Popen obsidian", "git commit -m Auto sync commit", "git push origin main"}

\* C1: if the stash step of a cycle pushed a stash, the cycle never makes two
\* 'git stash pop' attempts, and when the cycle has reached its terminal
\* state it has made exactly one, whatever the outcomes of the commands.
C1_ExactlyOneReapply ==
    stashPushed =>
        /\ CountCmd(events, "git stash pop") <= 1
        /\ pc = "done" => CountCmd(events, "git stash pop") = 1

\* C1 witness: a cycle that pushed a stash, failed the pull on the network
\* and has ended.
C1_Witness ==
    /\ pc = "done"
    /\ stashPushed
    /\ PullOutcome = "network"
    /\ CountCmd(events, "git stash pop") = 1

\* C2: once the commit after the editor session reported "nothing to
\* commit", 'git push origin main' is not run in that cycle, and the cycle
\* ends with "No changes to push." followed by the final success event.
C2_NothingToCommitSkipsPush ==
    LastOutcome(events, "git commit -m Auto sync commit") = "nothing" =>
        /\ CountCmd(events, "git push origin main") = 0
        /\ pc = "done" =>
              /\ Len(events) >= 2
              /\ events[Len(events) - 1] = Log("No changes to push.", 70)
              /\ events[Len(events)] =
                     Log("Sync complete. You can close this window now.", 100)

\* C2 witness: a finished cycle whose commit reported nothing to commit.
C2_Witness ==
    /\ pc = "done"
    /\ LastOutcome(events, "git commit -m Auto sync commit") = "nothing"

\* C3: when the pull of a finished cycle failed, the cycle has attempted the
\* stash reapply, has emitted a log event after that attempt (the report of
\* its outcome), and has run no editor launch, commit or push.
C3_PullFailureReappliesLogsAborts ==
    (pc = "done" /\ PullOutcome \in {"network", "conflict", "fail"}) =>
        /\ CountCmd(events, "git stash pop") = 1
        /\ \E i \in 1..Len(events) :
              /\ i > LastIndex(events, "git stash pop")
              /\ events[i].k = "log"
        /\ \A i \in 1..Len(events) :
              events[i].k = "cmd" => events[i].v \notin LaterStepCmds

\* C4: when the pull succeeded and the stash reapply reported a conflict, the
\* cycle is over with the manual-resolution line as its last event, it has
\* run no editor launch, commit or push and no stash drop or clear, and the
\* stash entry is still on the stash.
C4_ReapplyConflictAborts ==
    (PullOutcome = "ok" /\ PopOutcome = "conflict") =>
        /\ pc = "done"
        /\ events[Len(events)] =
              Log("Merge conflict while reapplying your stashed changes. Please resolve manually.", 35)
        /\ \A i \in 1..Len(events) :
              events[i].k = "cmd" =>
                 events[i].v \notin LaterStepCmds \cup {"git stash drop", "git stash clear"}
        /\ stash # <<>>

\* C4 witness: a cycle that pushed a stash, pulled, and hit a conflict on pop.
C4_Witness ==
    /\ stashPushed
    /\ PullOutcome = "ok"
    /\ PopOutcome = "conflict"

(***************************************************************************)
(* Properties of the one-time setup                                        *)
(***************************************************************************)
\* SETUP_DONE is "1" in memory or in the saved file.
FlagSet ==
    \/ Get(config_data, SETUP_DONE) = <<"1">>
    \/ Get(load_config(Defaults, config_file), SETUP_DONE) = <<"1">>

\* The wizard of this run of the program ran to its end and a _test_thread
\* has marked the setup complete (line 310).
MarkedThisRun == wpc = "ui" /\ Get(config_data, SETUP_DONE) = <<"1">>

SshCmd == "ssh -T git@github.com"

InitCmd == "git init"

InitialCommitCmd == "git commit -m Initial commit"

InitialPushCmd == "git push -u origin main"

Ran(c) == \E o \in {"ok", "fail"} : <<c, o>> \in scmds

\* A step of the bootstrap failed in this run.
SetupStepFailed ==
    \E c \in {InitCmd, InitialCommitCmd, InitialPushCmd} : <<c, "fail">> \in scmds

\* C5: SETUP_DONE, in memory and in the saved file, becomes "1" only in a run
\* of the program in which a connectivity test has returned success; failed
\* tests, however many and however interleaved with the wizard and the
\* Re-test SSH button, leave it "0".
C5_DoneOnlyAfterSshSuccess ==
    [][(~FlagSet /\ FlagSet') => <<SshCmd, "ok">> \in scmds]_vars

\* A run in which a connectivity test failed, a later one succeeded and the
\* flag was then set.
C5_Witness ==
    /\ <<SshCmd, "fail">> \in scmds
    /\ <<SshCmd, "ok">> \in scmds
    /\ MarkedThisRun
    /\ Get(load_config(Defaults, config_file), SETUP_DONE) = <<"1">>

\* C6: when repository initialisation, the initial commit or the initial push
\* has failed in a run, that run does not set SETUP_DONE to "1".
C6_FailureLeavesSetupIncomplete ==
    [][(wpc = "ui" /\ Get(config_data, SETUP_DONE) # <<"1">>
           /\ Get(config_data', SETUP_DONE) = <<"1">>)
          => ~SetupStepFailed]_vars

\* C7: the wizard was started on an empty folder that was no repository and
\* the bootstrap has run to the end: the vault holds exactly the placeholder
\* file and the repository exactly one commit.
C7_EmptyVaultGetsPlaceholderAndCommit ==
    (repo0 = <<FALSE, 0, "none", FALSE, {}, {}, {}>> /\ MarkedThisRun)
        => (vault = {"README.md"} /\ commits = 1)

\* C8: when the user declined to link a remote, the bootstrap runs no push.
C8_DeclinedRemoteNeverPushes ==
    "Skipping GitHub remote setup. You can set this up later manually." \in slog
        => ~Ran(InitialPushCmd)

\* The run started on a repository that was initialised, linked and held a
\* commit, and the user kept the existing remote.
SecondBootstrap ==
    /\ repo0[1] /\ repo0[2] > 0 /\ repo0[3] # "none"
    /\ "Keeping the existing 'origin' remote. Skipping new remote configuration."
          \in slog

BootstrapErrors ==
    {"Error initializing Git repository", "Error removing existing remote",
     "Error setting Git remote", "Error committing files",
     "Error pushing initial commit"}

\* C9: the bootstrap steps run again on an initialised, linked repository with
\* a commit, the user keeping the remote: no commit and no push is run, no
\* error is reported, and the repository is as it was before.
C9_SecondBootstrapChangesNothing ==
    SecondBootstrap =>
        /\ Snapshot = repo0
        /\ ~Ran(InitCmd) /\ ~Ran(InitialCommitCmd) /\ ~Ran(InitialPushCmd)
        /\ slog \cap BootstrapErrors = {}

\* The second bootstrap has run to the end.
C9_Witness == SecondBootstrap /\ MarkedThisRun

(***************************************************************************)
(* Properties of the configuration                                         *)
(***************************************************************************)
\* The same key set and the same value for every key
SameConfig(a, b) ==
    /\ Keys(a) = Keys(b)
    /\ \A k \in Keys(a) : Get(a, k) = Get(b, k)

HasToken(t, c) == \E i \in 1..Len(t) : t[i] = c

\* No line break in the text and no whitespace at either end of it
Clean(t) == Strip(t) = t /\ ~HasToken(t, NL)

\* Every key is clean and holds no equals sign, every value is clean.
CleanConfig(d) ==
    \A i \in 1..Len(d) : Clean(d[i][1]) /\ ~HasToken(d[i][1], EQ) /\ Clean(d[i][2])

\* C10 as stated: whatever the configuration holds, save_config followed by
\* load_config yields the same key set and the same value for every key.
C10_RoundTripOfAnyConfig ==
    cfgpc = "loaded" => SameConfig(config_data, saved)

\* C10, amended: save_config followed by load_config yields the same key set
\* and the same values when no key and no value holds a line break or starts
\* or ends with whitespace, and no key holds an equals sign.
C10_RoundTripOfCleanConfig ==
    (cfgpc = "loaded" /\ CleanConfig(saved)) => SameConfig(config_data, saved)

\* A clean configuration with an unknown key and an equals sign in the vault
\* path has been written and read back.
C10_Witness ==
    /\ cfgpc = "loaded"
    /\ CleanConfig(saved)
    /\ Len(saved) > Len(Defaults)
    /\ HasToken(Get(saved, VAULT_PATH), EQ)

(***************************************************************************)
(* Properties of the background threads                                    *)
(***************************************************************************)
\* The background threads that are running: _test_thread (line 317),
\* generate_ssh_key_async (line 381) and sync_thread (line 532).
ActiveTests == {t \in Threads : tpc[t] # "idle"}

ActiveKeygens == {k \in KeygenThreads : kpc[k] # "idle"}

SyncThreadActive == pc \notin {"off", "done"}

ActiveUnits ==
    Cardinality(ActiveTests) + Cardinality(ActiveKeygens)
        + (IF SyncThreadActive THEN 1 ELSE 0)

\* C11: at every moment at most one background thread (sync cycle,
\* connectivity re-test, key generation) is running, whatever the wizard
\* steps and button clicks.
C11_AtMostOneBackgroundUnit == ActiveUnits <= 1

(***************************************************************************)
(* More properties of the sync cycle                                       *)
(***************************************************************************)
\* The log events of the cycle that carry a progress value, in order
ProgressEvents == SelectSeq(events, LAMBDA e : e.k = "log" /\ e.p # NoProgress)

FinalSuccessLine == "Sync complete. You can close this window now."

\* C12: within one cycle the progress values of the log events, leaving out
\* the events without one, never decrease and lie in 0..100, and only the
\* final success event carries 100.
C12_ProgressMonotone ==
    LET pe == ProgressEvents IN
    /\ \A i \in 1..Len(pe) : pe[i].p \in 0..100
    /\ \A i, j \in 1..Len(pe) : i < j => pe[i].p <= pe[j].p
    /\ \A i \in 1..Len(pe) : pe[i].p = 100 => pe[i].v = FinalSuccessLine

\* A finished cycle that made the baseline commit, logged a pull detail line
\* (no progress value) and ended with the final success event.
C12_Witness ==
    /\ pc = "done"
    /\ events # <<>>
    /\ events[Len(events)].v = FinalSuccessLine
    /\ events[Len(events)].p = 100
    /\ \E i \in 1..Len(events) : events[i].k = "log" /\ events[i].p = NoProgress
    /\ \E i \in 1..Len(events) : events[i].v = "Initial commit created."

PullCmd == "git pull --rebase origin main"

PushCmd == "git push origin main"

\* The commands recorded after the last run of command c
CmdsAfter(ev, c) ==
    {ev[i].v : i \in {j \in 1..Len(ev) : ev[j].k = "cmd" /\ j > LastIndex(ev, c)}}

\* C13: a cycle runs the pull at most once and the push of the last step at
\* most once; after a failed pull only the stash pop follows, after a failed
\* push no command follows, and the cycle ends.
C13_NoRetryWithinCycle ==
    /\ CountCmd(events, PullCmd) <= 1
    /\ CountCmd(events, PushCmd) <= 1
    /\ (PullOutcome \notin {"", "ok"}) =>
          /\ CmdsAfter(events, PullCmd) \subseteq {"git stash pop"}
          /\ pc \in {"popfail", "done"}
    /\ (LastOutcome(events, PushCmd) \notin {"", "ok"}) =>
          /\ CmdsAfter(events, PushCmd) = {}
          /\ pc = "done"

\* A cycle has ended after its pull failed on the network and the stash pop
\* that follows the failure has run.
C13_Witness ==
    /\ pc = "done"
    /\ PullOutcome = "network"
    /\ CmdsAfter(events, PullCmd) = {"git stash pop"}

NetworkPullLine ==
    "Network error: Unable to pull changes. Your local changes remain safely stashed."

\* The files of the vault and the uncommitted edits among them
WorkingTree == <<vault, modified>>

\* C14: the cycle started on a repository with a baseline commit and a remote
\* branch and its pull failed with a network error: the stash pop has run,
\* the cycle has ended with the network-failure line, and the working tree
\* is the one the cycle started with.
C14_NetworkPullFailureKeepsWorkingTree ==
    (pc = "done" /\ repo0[2] > 0 /\ repo0[4] /\ PullOutcome = "network") =>
        /\ CountCmd(events, "git stash pop") = 1
        /\ \E i \in 1..Len(events) : events[i].k = "log" /\ events[i].v = NetworkPullLine
        /\ WorkingTree = <<repo0[5], repo0[7]>>

\* The log lines with which sync_thread reports that a command failed
\* (lines 423, 432, 441, 447, 461-465, 479-482, 491, 503-506, 522-524).
FailureLines ==
    {"No local commits detected. Checking if vault is empty...",
     "Error creating initial commit", "Remote branch 'main' not found.",
     "Error pushing initial commit", NetworkPullLine,
     "Merge conflict occurred during pull. Please resolve conflicts manually.",
     "Pull failed",
     "Merge conflict while reapplying your stashed changes. Please resolve manually.",
     "Stash pop error", "Error launching Obsidian",
     "No changes detected during this session. Nothing to commit.",
     "Commit failed",
     "Network error while pushing. Your changes are safely committed locally.",
     "Push failed"}

\* C15: when the cycle has ended, every command of it that failed is followed
\* by a log event that reports a failure.
C15_NoSilentFailure ==
    pc = "done" =>
        \A i \in 1..Len(events) :
            (events[i].k = "cmd" /\ events[i].p # 0) =>
                \E j \in (i + 1)..Len(events) :
                    events[j].k = "log" /\ events[j].v \in FailureLines

(***************************************************************************)
(* Properties of the known hosts file and of the SSH key                   *)
(***************************************************************************)
\* C16: the known hosts file only grows, and a github.com entry is appended
\* only when the file holds none, however the connectivity re-tests that run
\* at the same time interleave.
C16_KnownHostAddedOnlyIfAbsent ==
    [][knownHosts' # knownHosts => (knownHosts = 0 /\ knownHosts' = 1)]_vars

\* C17: ssh-keygen is run only when neither half of the key pair exists, and
\* an existing key file is never overwritten, for any number and interleaving
\* of Generate SSH Key requests.
C17_ExistingKeyNeverRegenerated ==
    /\ ~keyOverwritten
    /\ \A k \in KeygenThreads : kpc[k] = "k_gen" => (~keyPub /\ ~keyPriv)

(***************************************************************************)
(* Properties of the editor wait and of the gating of the steps            *)
(***************************************************************************)
\* C18: in a cycle that launched the editor, the commit step after the editor
\* wait does not start while the launched editor process is starting up or
\* running.
C18_CommitOnlyAfterEditorExit ==
    pc = "commit" => editor = "absent"

UpstreamPushCmd == "git push -u origin main"

\* C19: the push that creates the remote branch (git push -u origin main) is
\* run by the cycle only when branch main does not exist on the remote,
\* whatever the existence query returned.
C19_UpstreamPushOnlyIfBranchMissing ==
    [][(CountCmd(events', UpstreamPushCmd) > CountCmd(events, UpstreamPushCmd))
          => ~remoteMain]_vars

BaselineCommitCmd == "git commit -m Initial commit (auto-sync)"

\* The commands of the steps from the stash on
GatedCmds ==
    {"git stash", PullCmd, "git stash pop", "Popen obsidian",
     "git commit -m Auto sync commit", PushCmd}

EventCmds == {events[i].v : i \in {j \in 1..Len(events) : events[j].k = "cmd"}}

\* C20: when the baseline commit or the upstream push of a cycle failed, the
\* cycle ends and runs no stash, pull, stash pop, editor launch, commit or
\* push; and the editor is launched only in a cycle whose pull succeeded and
\* whose stash reapply did not fail.
C20_StepsAreGated ==
    /\ (LastOutcome(events, BaselineCommitCmd) \notin {"", "ok"}
          \/ LastOutcome(events, UpstreamPushCmd) \notin {"", "ok"}) =>
            (EventCmds \cap GatedCmds = {} /\ pc = "done")
    /\ ("Popen obsidian" \in EventCmds) =>
            (PullOutcome = "ok" /\ ~StashPopFailed(StashPopRes(PopOutcome)))

\* A cycle has ended after its upstream push failed.
C20_Witness ==
    /\ pc = "done"
    /\ LastOutcome(events, UpstreamPushCmd) = "network"
    /\ LastOutcome(events, BaselineCommitCmd) = "ok"

(***************************************************************************)
(* Properties of the stash reapply                                         *)
(***************************************************************************)
ReappliedLine == "Local changes reapplied successfully."

\* C21: when the pull of a cycle succeeded and the stash pop found no stash
\* entry to reapply, the event after the pop is the line that reports the
\* reapply as successful, no reapply failure is logged, and the cycle goes on
\* to the editor launch instead of ending there.
C21_NothingToReapplyIsSuccess ==
    (PullOutcome = "ok" /\ PopOutcome = "nostash") =>
        /\ Len(events) > LastIndex(events, "git stash pop")
        /\ events[LastIndex(events, "git stash pop") + 1] = Log(ReappliedLine, 35)
        /\ \A i \in 1..Len(events) :
              events[i].v \notin
                 {"Stash pop error",
                  "Merge conflict while reapplying your stashed changes. Please resolve manually."}
        /\ pc = "launch" \/ "Popen obsidian" \in EventCmds

\* A cycle that pushed no stash, pulled, found nothing to reapply and
\* launched the editor.
C21_Witness ==
    /\ ~stashPushed
    /\ PullOutcome = "ok"
    /\ PopOutcome = "nostash"
    /\ LastOutcome(events, "Popen obsidian") = "started"

(***************************************************************************)
(* Termination of the cycle                                                *)
(***************************************************************************)
\* The position of a step in the text of auto_sync / sync_thread; the two
\* stash pops (after a failed and after a successful pull) are alternatives.
StepRank(p) ==
    CASE p = "start"      -> 0
      [] p = "revparse"   -> 1
      [] p = "initcommit" -> 2
      [] p = "lsremote"   -> 3
      [] p = "pushu"      -> 4
      [] p = "stash"      -> 5
      [] p = "pull"       -> 6
      [] p = "popfail"    -> 7
      [] p = "pop"        -> 7
      [] p = "launch"     -> 8
      [] p = "wait"       -> 9
      [] p = "commit"     -> 10
      [] p = "push"       -> 11
      [] OTHER            -> 12

Terminal == pc \in {"done", "off"}

\* C22: every started cycle reaches its terminal state, whatever the
\* commands return, provided the thread keeps running and the editor exits;
\* and within a cycle the position only moves forward: no step is repeated
\* and no earlier step is entered again.
C22_CycleTerminates ==
    /\ \A c \in 1..MaxCycles :
          (cycle = c /\ pc = "start") ~> (cycle = c /\ Terminal)
    /\ [][(cycle' = cycle /\ pc' # pc) => StepRank(pc') > StepRank(pc)]_vars
    /\ [][(cycle' = cycle) =>
             \A c \in EventCmds :
                 c \notin {"git add ."} => CountCmd(events', c) <= 1]_vars

\* A cycle went through the editor wait and ended with a successful push.
C22_Witness ==
    /\ pc = "done"
    /\ LastOutcome(events, "Popen obsidian") = "started"
    /\ LastOutcome(events, PushCmd) = "ok"
    /\ events[Len(events)].p = 100

(***************************************************************************)
(* Frame of the stash reapply                                              *)
(***************************************************************************)
\* C23: in a cycle whose stash step pushed nothing (nothing to stash, or the
\* stash command failed), the stash pop of the cycle leaves a stash entry
\* that was there before the cycle in place and does not apply it to the
\* working tree.
C23_ReapplyOnlyConsumesOwnStash ==
    [][(pc \in {"pop", "popfail"} /\ ~stashPushed /\ stash # <<>>
          /\ events' # events)
            => (stash' = stash /\ modified' = modified)]_vars

(***************************************************************************)
(* Properties of the finished setup and of the remote link                 *)
(***************************************************************************)
\* C24: whenever SETUP_DONE is "1" in memory, the vault path and the editor
\* path are both set, in the wizard's run and in every later one, also after
\* a wizard that returned early and Re-test SSH clicks that followed.
C24_DoneImpliesPathsSet ==
    Get(config_data, SETUP_DONE) = <<"1">> =>
        /\ Get(config_data, VAULT_PATH) # <<>>
        /\ Get(config_data, OBSIDIAN_PATH) # <<>>

\* C25: when set_github_remote is entered with an origin remote configured,
\* an origin remote is configured when it returns, and when it returns False
\* (the wizard then returns early) the remote is the one found at entry.
C25_RemoteLinkNeverLost ==
    [][(wpc = "w_remote" /\ wpc' # wpc /\ isRepo /\ origin # "none")
          => /\ origin' # "none"
             /\ wpc' = "aborted" => origin' = origin]_vars

====
